---- MODULE Spec2Model ----
(***************************************************************************)
(* Ingestion tracker (src/src/models/tracking.py) and the Drive ingestion  *)
(* route (src/src/api/drive_routes.py) of the enterprise knowledge hub.    *)
(*                                                                         *)
(* The tracking log is a JSON-lines file.  Its content is modelled as a    *)
(* sequence of lines; a line is the serialisation of one DocumentTrack or  *)
(* an unparsable fragment left by an interrupted write.                    *)
(***************************************************************************)
EXTENDS Integers, Sequences, FiniteSets, TLC

\* ------------------------------------------------------------------ bounds
\* Largest number of lines the tracking file holds in the model.
MaxLog == 2
\* The same for the runs of the ingestion route, and how many of them are made.
MaxIngestLog == 3
MaxRuns == 2
\* Calls each of the concurrent workers makes.
MaxCalls == 2
\* Phrasings the language model produces for one question, at most.
MaxQueries == 2
\* src/utils/constants.py: passages a search returns, passages of an answer.
DEFAULT_RETRIEVER_K == 3

\* Local download paths, Drive file ids, error messages, clock readings.
Paths == {"p1", "p2"}
FileIds == {"f1", "f2"}
Errors == {"e1"}
Times == {1}
\* Names tempfile.NamedTemporaryFile can give a new temporary file.
TempNames == {"tmp1"}
\* Python's None for the optional string fields / the optional datetime field.
None == "None"
NoTime == 0

\* ------------------------------------------------------------ DocumentTrack
\* pydantic model DocumentTrack; metadata is never set by this repository.
DocumentTrack(file_path, file_id, status, timestamp, error, vectorized, vectorized_at) ==
    [file_path |-> file_path, file_id |-> file_id, status |-> status,
     timestamp |-> timestamp, error |-> error, vectorized |-> vectorized,
     vectorized_at |-> vectorized_at]

\* document.json() + '\n': one complete, newline-terminated line of the file.
Json(track) == [complete |-> TRUE, nl |-> TRUE, text |-> track]

\* What an interrupted write leaves: the beginning of a JSON object, without
\* its closing brace and without the newline.
PartialLine ==
    [complete |-> FALSE, nl |-> FALSE,
     text |-> DocumentTrack("", None, "", NoTime, None, FALSE, NoTime)]

\* A newline-terminated line that is not one JSON object (a fragment followed
\* by the text of a later append).
GarbageLine == [PartialLine EXCEPT !.nl = TRUE]

\* DocumentTrack.parse_raw(line): the record, or a validation error.
ParseRaw(line) ==
    IF line.complete THEN [ok |-> TRUE, track |-> line.text]
    ELSE [ok |-> FALSE, track |-> line.text]

\* ------------------------------------------------------------ file contents
\* f.write(text) on a file opened with mode 'a': the text goes after the last
\* byte, so it continues an unterminated last line.
AppendText(lines, line) ==
    IF lines # <<>> /\ ~lines[Len(lines)].nl
    THEN [lines EXCEPT ![Len(lines)] = GarbageLine]
    ELSE Append(lines, line)

TrackFaults == {"none", "open", "partial"}

\* Mutant of Track: the file is opened with mode 'w' instead of 'a'.
TrackOverwrites(file, document, fault) ==
    [file |-> [exists |-> TRUE, lines |-> <<Json(document)>>], raised |-> FALSE]

\* IngestionTracker.track under fault: "none" the line is written; "open" the
\* file cannot be opened and nothing is written; "partial" the write is cut
\* short (disk full, process killed) after a fragment of the line.
\* file = [exists, lines]; the result says whether the call raised.
Track(file, document, fault) ==
    CASE fault = "open" -> [file |-> file, raised |-> TRUE]
      [] fault = "partial" ->
            [file |-> [exists |-> TRUE, lines |-> AppendText(file.lines, PartialLine)],
             raised |-> TRUE]
      [] OTHER ->
            [file |-> [exists |-> TRUE, lines |-> AppendText(file.lines, Json(document))],
             raised |-> FALSE]

\* The loop of get_history: parse every line, raising at the first line that
\* does not parse.
RECURSIVE ParseLines(_)
ParseLines(lines) ==
    IF lines = <<>> THEN [ok |-> TRUE, tracks |-> <<>>]
    ELSE LET p == ParseRaw(Head(lines))
             r == ParseLines(Tail(lines))
         IN IF p.ok /\ r.ok
            THEN [ok |-> TRUE, tracks |-> <<p.track>> \o r.tracks]
            ELSE [ok |-> FALSE, tracks |-> <<>>]

\* IngestionTracker.get_history: ok = FALSE stands for the raised exception.
GetHistory(file) ==
    IF ~file.exists THEN [ok |-> TRUE, tracks |-> <<>>]
    ELSE ParseLines(file.lines)

\* Mutant of ScanVectorized: only the last record of the id decides.
RECURSIVE ScanLastRecord(_, _)
ScanLastRecord(tracks, file_id) ==
    IF tracks = <<>> THEN FALSE
    ELSE IF tracks[Len(tracks)].file_id = file_id THEN tracks[Len(tracks)].vectorized
    ELSE ScanLastRecord(SubSeq(tracks, 1, Len(tracks) - 1), file_id)

\* Mutant of ScanVectorized: the vectorized flag is not looked at.
RECURSIVE ScanAnyRecord(_, _)
ScanAnyRecord(tracks, file_id) ==
    IF tracks = <<>> THEN FALSE
    ELSE IF Head(tracks).file_id = file_id THEN TRUE
    ELSE ScanAnyRecord(Tail(tracks), file_id)

\* The loop of is_file_vectorized over the parsed history.
RECURSIVE ScanVectorized(_, _)
ScanVectorized(tracks, file_id) ==
    IF tracks = <<>> THEN FALSE
    ELSE IF Head(tracks).file_id = file_id /\ Head(tracks).vectorized THEN TRUE
    ELSE ScanVectorized(Tail(tracks), file_id)

\* IngestionTracker.is_file_vectorized: ok = FALSE when get_history raised.
IsFileVectorized(file, file_id) ==
    LET h == GetHistory(file)
    IN [ok |-> h.ok, value |-> h.ok /\ ScanVectorized(h.tracks, file_id)]


\* The list comprehension of get_vectorized_files: the path of every record
\* that has vectorized set, in file order.
RECURSIVE VectorizedPaths(_)
VectorizedPaths(tracks) ==
    IF tracks = <<>> THEN <<>>
    ELSE (IF Head(tracks).vectorized THEN <<Head(tracks).file_path>> ELSE <<>>)
         \o VectorizedPaths(Tail(tracks))

\* The list comprehension of get_failed_files: the path of every record that
\* is not vectorized and has status 'failed'.
RECURSIVE FailedPaths(_)
FailedPaths(tracks) ==
    IF tracks = <<>> THEN <<>>
    ELSE (IF ~Head(tracks).vectorized /\ Head(tracks).status = "failed"
          THEN <<Head(tracks).file_path>> ELSE <<>>)
         \o FailedPaths(Tail(tracks))

\* IngestionTracker.get_vectorized_files, get_failed_files.
GetVectorizedFiles(file) ==
    LET h == GetHistory(file)
    IN [ok |-> h.ok, paths |-> IF h.ok THEN VectorizedPaths(h.tracks) ELSE <<>>]

GetFailedFiles(file) ==
    LET h == GetHistory(file)
    IN [ok |-> h.ok, paths |-> IF h.ok THEN FailedPaths(h.tracks) ELSE <<>>]

\* drive_routes.py 117-134: GET /tracking/status; 500 when the log cannot be
\* read.
GetTrackingStatus(file) ==
    LET history == GetHistory(file)
        vectorized == GetVectorizedFiles(file)
        failed == GetFailedFiles(file)
    IN IF ~history.ok
       THEN [status |-> "500", total_files |-> 0, vectorized_files |-> 0,
             failed_files |-> 0, vectorized_paths |-> <<>>, failed_paths |-> <<>>]
       ELSE [status |-> "success", total_files |-> Len(history.tracks),
             vectorized_files |-> Len(vectorized.paths),
             failed_files |-> Len(failed.paths),
             vectorized_paths |-> vectorized.paths,
             failed_paths |-> failed.paths]

\* ------------------------------------------- update_vectorization_status

\* Mutant of RewriteTrack: the status of the record is rewritten as well.
RewriteTrackSetsStatus(track, file_path, success, error, now) ==
    IF track.file_path = file_path
    THEN [track EXCEPT !.vectorized = success,
                       !.vectorized_at = now,
                       !.status = IF success THEN "vectorized" ELSE "failed",
                       !.error = IF error # None THEN error ELSE @]
    ELSE track

\* Lines 50-56: the record read from one line, after the update for file_path.
RewriteTrack(track, file_path, success, error, now) ==
    IF track.file_path = file_path
    THEN [track EXCEPT !.vectorized = success,
                       !.vectorized_at = now,
                       !.error = IF error # None THEN error ELSE @]
    ELSE track

\* Mutant of RewriteLines: the `updated` flag is never set.
RECURSIVE RewriteLinesNoFlag(_, _, _, _, _)
RewriteLinesNoFlag(lines, file_path, success, error, now) ==
    IF lines = <<>> THEN [ok |-> TRUE, temp |-> <<>>, updated |-> FALSE]
    ELSE LET p == ParseRaw(Head(lines))
             r == RewriteLinesNoFlag(Tail(lines), file_path, success, error, now)
         IN IF p.ok /\ r.ok
            THEN [ok |-> TRUE,
                  temp |-> <<Json(RewriteTrack(p.track, file_path, success, error, now))>>
                           \o r.temp,
                  updated |-> FALSE]
            ELSE [ok |-> FALSE, temp |-> <<>>, updated |-> FALSE]

\* Lines 47-57: copy every line to the temporary file, updating the records
\* of file_path.  ok = FALSE: parse_raw raised on some line.
RECURSIVE RewriteLines(_, _, _, _, _)
RewriteLines(lines, file_path, success, error, now) ==
    IF lines = <<>> THEN [ok |-> TRUE, temp |-> <<>>, updated |-> FALSE]
    ELSE LET p == ParseRaw(Head(lines))
             r == RewriteLines(Tail(lines), file_path, success, error, now)
         IN IF p.ok /\ r.ok
            THEN [ok |-> TRUE,
                  temp |-> <<Json(RewriteTrack(p.track, file_path, success, error, now))>>
                           \o r.temp,
                  updated |-> r.updated \/ p.track.file_path = file_path]
            ELSE [ok |-> FALSE, temp |-> <<>>, updated |-> FALSE]

\* Lines 65-72: the entry added when no record of file_path was found.
TerminalTrack(file_path, success, error, now) ==
    DocumentTrack(file_path, None, IF success THEN "vectorized" ELSE "failed",
                  now, error, success, IF success THEN now ELSE NoTime)

\* What a copy of the temporary file over the tracking file leaves when it is
\* interrupted: the first `keep` lines, and possibly a fragment of the next.
CopyPrefix(temp, keep, partial) ==
    SubSeq(temp, 1, keep) \o (IF partial THEN <<PartialLine>> ELSE <<>>)

\* Where an update call can be hit by the environment, and how.
\*   write       an I/O error while writing the temporary file
\*   move        shutil.move fails before it touches the tracking file
\*   copy        the temporary directory is on another file system, so
\*               shutil.move copies onto the tracking file, and the copy fails
\*   track_open, track_partial   the trailing self.track fails
\*   crash_write, crash_copy, crash_track   the process dies at that point
\*               (no finally block runs)
UpdateFaultKinds ==
    {"none", "write", "move", "copy", "track_open", "track_partial",
     "crash_write", "crash_copy", "crash_track"}
NoFault == [at |-> "none", keep |-> 0, partial |-> FALSE]

\* IngestionTracker.update_vectorization_status as one call.
\* file = [exists, lines] is the tracking file, tmp the set of temporary
\* files lying on disk, name the name of the temporary file of this call.  outcome: "returned", "raised" or "crashed";
\* tracked: the records whose self.track call completed.
UpdateVectorizationStatus(file, tmp, name, file_path, success, error, now, fault) ==
    IF ~file.exists
    THEN [file |-> file, tmp |-> tmp, outcome |-> "returned", tracked |-> <<>>]
    ELSE
    LET r == RewriteLines(file.lines, file_path, success, error, now)
        moved == [exists |-> TRUE, lines |-> r.temp]
        cutfile == [exists |-> TRUE,
                    lines |-> CopyPrefix(r.temp, fault.keep, fault.partial)]
        terminal == TerminalTrack(file_path, success, error, now)
        t == Track(moved, terminal,
                   CASE fault.at = "track_open" -> "open"
                     [] fault.at \in {"track_partial", "crash_track"} -> "partial"
                     [] OTHER -> "none")
    IN CASE fault.at = "crash_write" ->
              [file |-> file, tmp |-> tmp \cup {name}, outcome |-> "crashed", tracked |-> <<>>]
         [] ~r.ok \/ fault.at \in {"write", "move"} ->
              [file |-> file, tmp |-> tmp, outcome |-> "raised", tracked |-> <<>>]
         [] fault.at = "copy" ->
              [file |-> cutfile, tmp |-> tmp, outcome |-> "raised", tracked |-> <<>>]
         [] fault.at = "crash_copy" ->
              [file |-> cutfile, tmp |-> tmp \cup {name}, outcome |-> "crashed", tracked |-> <<>>]
         [] r.updated ->
              [file |-> moved, tmp |-> tmp, outcome |-> "returned", tracked |-> <<>>]
         [] OTHER ->
              [file |-> t.file, tmp |-> tmp,
               outcome |-> IF fault.at = "crash_track" THEN "crashed"
                           ELSE IF t.raised THEN "raised" ELSE "returned",
               tracked |-> IF t.raised THEN <<>> ELSE <<terminal>>]

\* The faults that can hit an update of this file: an interrupted copy keeps
\* fewer lines than the temporary file holds, or all of them and no fragment.
UpdateFaults(file) ==
    {[at |-> k, keep |-> 0, partial |-> FALSE] :
        k \in UpdateFaultKinds \ {"copy", "crash_copy"}}
    \cup {[at |-> k, keep |-> n, partial |-> b] :
            k \in {"copy", "crash_copy"}, n \in 0..(Len(file.lines) - 1),
            b \in BOOLEAN}

\* ------------------------------------------------------------------ state
VARIABLES
    tracking_file,   \* data/tracking/ingestion_log.jsonl: [exists, lines]
    temp_files,      \* temporary files of update calls left on disk
    completed,       \* identity of the records whose track call completed
                     \* (kept by the undisturbed runs only)
    lastCall,        \* the call made last, how it ended, where it was hit
    drive,           \* the Drive folder: file id -> path its download is saved at
    running,         \* a call of ingest_drive_files is in progress
    pending,         \* the files its loop has still to visit
    processed_files, \* its list processed_files
    documents,       \* the files whose chunks are in its list documents
    runs,            \* calls of ingest_drive_files started so far
    lastEvent,       \* what the ingestion did last
    everVectorized,  \* the ids is_file_vectorized has been true of
    workers,         \* concurrent workers: where each is in its tracker call
    updates,         \* [file_path, success] of the update calls that went
                     \* through the rewrite and returned
    copying,         \* a copy of a temporary file onto the tracking file in
                     \* progress: the content before it, the lines copied
    reader,          \* what the last get_history of a concurrent reader read
    forced,          \* the ingestion run in progress is a forced one
    rag,             \* the query request being served
    index,           \* the vector index saved at VECTORSTORE_PATH
    cache            \* what the lru_cache of the process holds

trackerVars == <<tracking_file, temp_files, completed, lastCall>>
ingestVars == <<drive, running, pending, processed_files, documents, runs,
                lastEvent, everVectorized>>
concVars == <<workers, updates>>
readVars == <<copying, reader>>
ragVars == <<rag>>
storeVars == <<index, cache>>
vars == <<trackerVars, ingestVars, forced, concVars, readVars, ragVars, storeVars>>

\* The fields of a record that no tracker operation is meant to change.
Identity(track) ==
    <<track.file_path, track.file_id, track.status, track.timestamp>>

RECURSIVE Identities(_)
Identities(tracks) ==
    IF tracks = <<>> THEN <<>>
    ELSE <<Identity(Head(tracks))>> \o Identities(Tail(tracks))

\* The record ingest_drive_files passes to tracker.track after a download.
DownloadedTrack(file_path, file_id, now) ==
    DocumentTrack(file_path, file_id, "downloaded", now, None, FALSE, NoTime)

\* IngestionTracker(): the directory is created, the file is not.
TrackerInit ==
    /\ tracking_file = [exists |-> FALSE, lines |-> <<>>]
    /\ temp_files = {}
    /\ completed = <<>>
    /\ lastCall = [op |-> "none", outcome |-> "returned", at |-> "none"]

\* No ingestion request has been received.
IngestIdle ==
    /\ running = FALSE
    /\ pending = <<>>
    /\ processed_files = {}
    /\ documents = {}
    /\ runs = 0
    /\ lastEvent = [file_id |-> None, kind |-> "none", result |-> "none"]
    /\ everVectorized = {}

\* The workers sharing the log, and the temporary file of each.
WorkerIds == {"w1", "w2"}
WorkerTemp == [w \in WorkerIds |-> IF w = "w1" THEN "tmpA" ELSE "tmpB"]

\* A worker between two tracker calls, n calls made.
IdleWorker(n) ==
    [pc |-> "idle", calls |-> n, file_path |-> None, success |-> FALSE,
     error |-> None, now |-> NoTime, temp |-> <<>>, updated |-> FALSE]

\* No worker has called the tracker, nobody has read the file.
ConcIdle ==
    /\ workers = [w \in WorkerIds |-> IdleWorker(0)]
    /\ updates = {}
    /\ copying = [before |-> <<>>, n |-> 0]
    /\ reader = [seen |-> <<>>, before |-> <<>>, after |-> <<>>]

\* The passages of the vector index, and the relevance scores a search gives
\* them (tenths: 6 is 0.6, 9 is 0.9).
Passages == {"A", "B", "C", "D"}
Scores == {6, 9}

\* No query request is being served.
NoQuery ==
    [pc |-> "idle", via |-> "none", question |-> None, scored |-> FALSE,
     expanded |-> "none", queries |-> 0, docs |-> <<>>,
     best |-> [p \in Passages |-> 0], calls |-> {}, outcome |-> "none",
     context |-> <<>>, sources |-> <<>>, status |-> "none", fault |-> "none"]

\* The parts of the state a specification does not use keep these values.
Unused == forced = FALSE /\ rag = NoQuery

\* The vector index: whether the directory VECTORSTORE_PATH holds one, and
\* the Drive files whose chunks are in it.
NoIndex == [exists |-> FALSE, docs |-> {}]

\* The handles cached by lru_cache: get_llm / get_rag_pipeline, and
\* get_vectorstore / get_doc_retriever with the index they loaded.
NoCache == [llm |-> FALSE, store |-> [loaded |-> FALSE, docs |-> {}]]

\* A new process before any vector store was created.
NoStore == index = NoIndex /\ cache = NoCache

\* A tracker on a directory without log file, used by a client of its own.
Init ==
    /\ TrackerInit
    /\ IngestIdle
    /\ ConcIdle
    /\ Unused
    /\ NoStore
    /\ drive = [f \in FileIds |-> "p1"]

\* A client calls tracker.track(document).
TrackCall(document, fault) ==
    /\ Len(tracking_file.lines) < MaxLog
    /\ LET r == Track(tracking_file, document, fault)
       IN /\ tracking_file' = r.file
          /\ lastCall' = [op |-> "track",
                          outcome |-> IF r.raised THEN "raised" ELSE "returned",
                          at |-> fault]
    /\ UNCHANGED <<temp_files, ingestVars, forced, concVars, readVars, ragVars, storeVars>>

\* A client calls tracker.update_vectorization_status(file_path, success, error).
UpdateCall(file_path, success, error, now, fault) ==
    \E name \in TempNames \ temp_files :
        LET r == UpdateVectorizationStatus(tracking_file, temp_files, name,
                                           file_path, success, error, now, fault)
        IN /\ Len(r.file.lines) <= MaxLog
           /\ tracking_file' = r.file
           /\ temp_files' = r.tmp
           /\ lastCall' = [op |-> "update", outcome |-> r.outcome,
                           at |-> fault.at]
           /\ UNCHANGED <<ingestVars, forced, concVars, readVars, ragVars, storeVars>>

\* Calls that run to completion, undisturbed.
DoTrack ==
    \E p \in Paths, id \in FileIds, now \in Times :
        /\ TrackCall(DownloadedTrack(p, id, now), "none")
        /\ completed' = Append(completed, Identity(DownloadedTrack(p, id, now)))

DoUpdate ==
    \E p \in Paths, success \in BOOLEAN, error \in Errors \cup {None},
       now \in Times :
        /\ UpdateCall(p, success, error, now, NoFault)
        /\ completed' = completed \o Identities(
               UpdateVectorizationStatus(tracking_file, temp_files, "tmp1", p,
                                         success, error, now, NoFault).tracked)

Next == DoTrack \/ DoUpdate

\* Any sequence of tracker calls by one client, none hit by a fault or crash.
Spec == Init /\ [][Next]_vars

\* Calls hit by an I/O error or by the death of the process.
FaultyTrack ==
    \E p \in Paths, id \in FileIds, now \in Times, fault \in TrackFaults :
        /\ TrackCall(DownloadedTrack(p, id, now), fault)
        /\ UNCHANGED completed

FaultyUpdate ==
    \E p \in Paths, success \in BOOLEAN, error \in Errors \cup {None},
       now \in Times, fault \in UpdateFaults(tracking_file) :
        /\ UpdateCall(p, success, error, now, fault)
        /\ UNCHANGED completed

\* Somebody removes the orphaned temporary files.
CleanTemp ==
    /\ temp_files # {}
    /\ temp_files' = {}
    /\ lastCall' = [op |-> "clean", outcome |-> "returned", at |-> "none"]
    /\ UNCHANGED <<tracking_file, completed, ingestVars, forced, concVars, readVars, ragVars, storeVars>>

NextFault == FaultyTrack \/ FaultyUpdate \/ CleanTemp

\* Any sequence of tracker calls by one client (the process restarted after a
\* crash), each call possibly hit by a fault.
SpecFault == Init /\ [][NextFault]_vars

\* ------------------------------------------------- ingest_drive_files
\* Where one iteration of the loop over the files can be hit, and how.
\*   download      download_single_file raises
\*   track_open, track_partial   tracker.track raises (see Track)
\*   load          doc_loader.load_document raises
\*   upd_write, upd_copy   update_vectorization_status(path, success=True)
\*                 raises (faults write and copy of UpdateFaultKinds)
\*   remove        os.remove raises
\*   crash_download, crash_track, crash_upd_write, crash_upd_copy, crash_end
\*                 the process dies after the download, inside track, inside
\*                 the update, after the update
IngestFaultKinds ==
    {"none", "download", "track_open", "track_partial", "load", "upd_write",
     "upd_copy", "remove", "crash_download", "crash_track", "crash_upd_write",
     "crash_upd_copy", "crash_end"}

IngestFaults(file) ==
    {[at |-> k, keep |-> 0, partial |-> FALSE] :
        k \in IngestFaultKinds \ {"upd_copy", "crash_upd_copy"}}
    \cup {[at |-> k, keep |-> n, partial |-> b] :
            k \in {"upd_copy", "crash_upd_copy"}, n \in 0..Len(file.lines),
            b \in BOOLEAN}

\* The fault of the update call inside an iteration hit by `fault`.
UpdateFaultOf(fault) ==
    [at |-> CASE fault.at = "upd_write" -> "write"
              [] fault.at = "upd_copy" -> "copy"
              [] fault.at = "crash_upd_write" -> "crash_write"
              [] fault.at = "crash_upd_copy" -> "crash_copy"
              [] OTHER -> "none",
     keep |-> fault.keep, partial |-> fault.partial]

\* Lines 91-96: the except branch, run with the paths downloaded so far.  It
\* ends the iteration ("failed"), unless update_vectorization_status raises
\* in it: the exception then leaves the loop and the request ("aborted").
ExceptBranch(file, tmp, name, downloaded_paths, now, processed, loaded) ==
    IF downloaded_paths = {}
    THEN [file |-> file, tmp |-> tmp, result |-> "failed",
          processed |-> processed, loaded |-> loaded]
    ELSE LET path == CHOOSE q \in downloaded_paths : TRUE
             u == UpdateVectorizationStatus(file, tmp, name, path, FALSE, "e1",
                                            now, NoFault)
         IN [file |-> u.file, tmp |-> u.tmp,
             result |-> IF u.outcome = "returned" THEN "failed" ELSE "aborted",
             processed |-> processed, loaded |-> loaded]

\* Mutant of IngestOneFile: the check of is_file_vectorized is left out.
IngestOneFileNoSkip(file, tmp, name, file_id, path, now, fault) ==
    LET t == Track(file, DownloadedTrack(path, file_id, now), "none")
        u == UpdateVectorizationStatus(t.file, tmp, name, path, TRUE, None, now,
                                       NoFault)
    IN [file |-> u.file, tmp |-> u.tmp, result |-> "ok", processed |-> TRUE,
        loaded |-> TRUE, kind |-> "downloaded"]

\* Lines 58-96: one iteration of the loop, for the Drive file file_id whose
\* download is saved at path.  kind: "check_failed" (is_file_vectorized
\* raised), "skipped", "download_failed" or "downloaded"; result: "skipped",
\* "ok", "failed", "aborted" or "crashed"; processed / loaded: the path was
\* added to processed_files / the chunks to documents.
IngestOneFile(file, tmp, name, file_id, path, now, fault) ==
    LET check == IsFileVectorized(file, file_id)
        t == Track(file, DownloadedTrack(path, file_id, now),
                   CASE fault.at = "track_open" -> "open"
                     [] fault.at \in {"track_partial", "crash_track"} -> "partial"
                     [] OTHER -> "none")
        u == UpdateVectorizationStatus(t.file, tmp, name, path, TRUE, None, now,
                                       UpdateFaultOf(fault))
        Crashed(f, tm, pr) ==
            [file |-> f, tmp |-> tm, result |-> "crashed", processed |-> pr,
             loaded |-> pr]
    IN CASE ~check.ok ->
              ExceptBranch(file, tmp, name, {}, now, FALSE, FALSE)
                  @@ [kind |-> "check_failed"]
         [] check.value ->
              [file |-> file, tmp |-> tmp, result |-> "skipped",
               processed |-> FALSE, loaded |-> FALSE, kind |-> "skipped"]
         [] fault.at = "download" ->
              ExceptBranch(file, tmp, name, {}, now, FALSE, FALSE)
                  @@ [kind |-> "download_failed"]
         [] fault.at = "crash_download" ->
              Crashed(file, tmp, FALSE) @@ [kind |-> "downloaded"]
         [] fault.at = "crash_track" ->
              Crashed(t.file, tmp, FALSE) @@ [kind |-> "downloaded"]
         [] t.raised \/ fault.at = "load" ->
              ExceptBranch(t.file, tmp, name, {path}, now, FALSE, FALSE)
                  @@ [kind |-> "downloaded"]
         [] u.outcome = "crashed" ->
              Crashed(u.file, u.tmp, TRUE) @@ [kind |-> "downloaded"]
         [] u.outcome = "raised" \/ fault.at = "remove" ->
              ExceptBranch(u.file, u.tmp, name, {path}, now, TRUE, TRUE)
                  @@ [kind |-> "downloaded"]
         [] fault.at = "crash_end" ->
              Crashed(u.file, u.tmp, TRUE) @@ [kind |-> "downloaded"]
         [] OTHER ->
              [file |-> u.file, tmp |-> u.tmp, result |-> "ok",
               processed |-> TRUE, loaded |-> TRUE, kind |-> "downloaded"]

\* The ids is_file_vectorized is true of, for a given tracking file.
VectorizedIds(file) == {id \in FileIds : IsFileVectorized(file, id).value}

\* The Drive folder holds files saved at any of the paths (two files of the
\* same name are saved at the same path); the log does not exist yet.
IngestInit ==
    /\ TrackerInit
    /\ IngestIdle
    /\ ConcIdle
    /\ Unused
    /\ NoStore
    /\ drive \in [FileIds -> Paths]

\* What list_files_in_folder can return: the files of the folder, in any order.
Listings == {<<"f1">>, <<"f2">>, <<"f1", "f2">>, <<"f2", "f1">>}

\* Lines 43-55: a request arrives and the files of the folder are listed.
StartRun ==
    /\ ~running
    /\ runs < MaxRuns
    /\ running' = TRUE
    /\ runs' = runs + 1
    /\ \E files \in Listings : pending' = files
    /\ processed_files' = {}
    /\ documents' = {}
    /\ lastEvent' = [file_id |-> None, kind |-> "start", result |-> "none"]
    /\ forced' = FALSE
    /\ UNCHANGED <<trackerVars, drive, everVectorized, concVars, readVars, ragVars, storeVars>>

\* One iteration of the loop, for the first file not yet visited.
IngestFile ==
    /\ running
    /\ pending # <<>>
    /\ \E now \in Times, fault \in IngestFaults(tracking_file),
          name \in TempNames \ temp_files :
        LET file_id == Head(pending)
            r == IngestOneFile(tracking_file, temp_files, name, file_id,
                               drive[file_id], now, fault)
        IN /\ Len(r.file.lines) <= MaxIngestLog
           /\ tracking_file' = r.file
           /\ temp_files' = r.tmp
           /\ lastEvent' = [file_id |-> file_id, kind |-> r.kind, result |-> r.result]
           /\ everVectorized' = everVectorized \cup VectorizedIds(r.file)
           /\ IF r.result \in {"crashed", "aborted"}
              THEN /\ running' = FALSE
                   /\ pending' = <<>>
                   /\ processed_files' = {}
                   /\ documents' = {}
              ELSE /\ running' = TRUE
                   /\ pending' = Tail(pending)
                   /\ processed_files' = processed_files \cup
                          (IF r.processed THEN {drive[file_id]} ELSE {})
                   /\ documents' = documents \cup
                          (IF r.loaded THEN {file_id} ELSE {})
           /\ cache' = IF r.result = "crashed" THEN NoCache ELSE cache
    /\ UNCHANGED <<completed, lastCall, drive, runs, forced, concVars, readVars, ragVars, index>>

\* vector_store.py 30-37: FAISS.from_documents builds an index of the
\* documents it is given and save_local writes it to save_path, in the place
\* of what was saved there.
create_vectorstore(docs) == [exists |-> TRUE, docs |-> docs]

\* Lines 98-115: after the loop the request is answered: 400 when no file was
\* processed (500 when get_vectorized_file_ids raises on the way), 500 when
\* create_vectorstore fails, else success with the index of the documents
\* of this run saved.
EndRun ==
    /\ running
    /\ pending = <<>>
    /\ running' = FALSE
    /\ processed_files' = {}
    /\ documents' = {}
    /\ \E store_fails \in BOOLEAN :
        /\ lastEvent' = [file_id |-> None, kind |-> "end",
                         result |-> IF processed_files = {}
                                    THEN IF GetHistory(tracking_file).ok
                                         THEN "400" ELSE "500"
                                    ELSE IF documents # {} /\ store_fails
                                         THEN "500" ELSE "success"]
        /\ index' = IF processed_files # {} /\ documents # {} /\ ~store_fails
                    THEN create_vectorstore(documents)
                    ELSE index
    /\ UNCHANGED <<trackerVars, drive, pending, runs, everVectorized, forced, concVars, readVars, ragVars, cache>>

\* Somebody removes the orphaned temporary files between two requests.
IngestCleanTemp ==
    /\ temp_files # {}
    /\ temp_files' = {}
    /\ UNCHANGED <<tracking_file, completed, lastCall, ingestVars, forced, concVars, readVars, ragVars, storeVars>>

NextIngest == StartRun \/ IngestFile \/ EndRun \/ IngestCleanTemp

\* Successive non-forced ingestion requests (one at a time, the process
\* restarted after a crash), each iteration possibly hit by a fault.
SpecIngest == IngestInit /\ [][NextIngest]_vars


\* --------------------------------------------- force_ingest_drive_files
\* Drive ids of folders.  A request can also name the id of a plain file as
\* its folder; such a "folder" lists no file.
FolderIds == {"d1"}

\* Lines 161-164: for every record of the history read at line 161 whose
\* file_id equals the folder id of the request, the status of its path is
\* reset with update_vectorization_status(track.file_path, success=False).
RECURSIVE ForceClear(_, _, _, _, _, _)
ForceClear(file, tmp, name, tracks, folder_id, now) ==
    IF tracks = <<>> THEN file
    ELSE ForceClear(
            IF Head(tracks).file_id = folder_id
            THEN UpdateVectorizationStatus(file, tmp, name, Head(tracks).file_path,
                                           FALSE, None, now, NoFault).file
            ELSE file,
            tmp, name, Tail(tracks), folder_id, now)

\* Lines 154-169: a forced request arrives.  When get_history raises the
\* request ends with 500; else the statuses are reset as above and
\* ingest_drive_files runs as for any request (lines 43-55).
StartForcedRun ==
    /\ ~running
    /\ runs < MaxRuns
    /\ runs' = runs + 1
    /\ processed_files' = {}
    /\ documents' = {}
    /\ \E folder_id \in FolderIds \cup FileIds, now \in Times,
          name \in TempNames \ temp_files :
        LET h == GetHistory(tracking_file)
        IN IF ~h.ok
           THEN /\ lastEvent' = [file_id |-> None, kind |-> "end", result |-> "500"]
                /\ UNCHANGED <<tracking_file, running, pending, forced>>
           ELSE /\ tracking_file' = ForceClear(tracking_file, temp_files, name,
                                              h.tracks, folder_id, now)
                /\ running' = TRUE
                /\ forced' = TRUE
                /\ pending' \in (IF folder_id \in FolderIds THEN Listings ELSE {<<>>})
                /\ lastEvent' = [file_id |-> None, kind |-> "start", result |-> "none"]
    /\ UNCHANGED <<temp_files, completed, lastCall, drive, everVectorized, concVars,
                   readVars, ragVars, storeVars>>

NextForce == StartRun \/ StartForcedRun \/ IngestFile \/ EndRun \/ IngestCleanTemp

\* Successive ingestion requests, forced or not.
SpecForce == IngestInit /\ [][NextForce]_vars

\* ------------------------------------------------------ concurrent workers
\* Two workers (threads or processes) use the tracker on the same file.  The
\* code takes no lock, so the steps of their calls interleave.  A step is what
\* the file system does at once: an append of one line to a file opened with
\* mode 'a', the reading of the file, the rename of the temporary file.
\* No fault and no crash happens here.

\* Lines 28-31: worker w calls track for a file it has downloaded.
WorkerTrack(w) ==
    /\ workers[w].pc = "idle"
    /\ workers[w].calls < MaxCalls
    /\ Len(tracking_file.lines) < MaxLog
    /\ \E p \in Paths, id \in FileIds, now \in Times :
        LET document == DownloadedTrack(p, id, now)
        IN /\ tracking_file' = Track(tracking_file, document, "none").file
           /\ completed' = Append(completed, Identity(document))
    /\ workers' = [workers EXCEPT ![w].calls = @ + 1]
    /\ UNCHANGED <<temp_files, lastCall, ingestVars, updates, forced, readVars, ragVars, storeVars>>

\* Lines 39-59: worker w calls update_vectorization_status; it returns at once
\* when the file does not exist, else it reads the file and writes the updated
\* records to its temporary file.
WorkerRewrite(w) ==
    /\ workers[w].pc = "idle"
    /\ workers[w].calls < MaxCalls
    /\ \E p \in Paths, success \in BOOLEAN, now \in Times :
        LET error == IF success THEN None ELSE "e1"
            r == RewriteLines(tracking_file.lines, p, success, error, now)
        IN IF ~tracking_file.exists
           THEN /\ workers' = [workers EXCEPT ![w].calls = @ + 1]
                /\ UNCHANGED temp_files
           ELSE /\ r.ok
                /\ workers' = [workers EXCEPT ![w] =
                       [pc |-> "rewritten", calls |-> workers[w].calls,
                        file_path |-> p, success |-> success, error |-> error,
                        now |-> now, temp |-> r.temp, updated |-> r.updated]]
                /\ temp_files' = temp_files \cup {WorkerTemp[w]}
    /\ UNCHANGED <<tracking_file, completed, lastCall, ingestVars, updates, forced, readVars, ragVars, storeVars>>

\* Line 61: shutil.move renames the temporary file of w over the tracking
\* file.  Lines 63, 73-76: with a record updated the call returns.
WorkerMove(w) ==
    /\ workers[w].pc = "rewritten"
    /\ tracking_file' = [exists |-> TRUE, lines |-> workers[w].temp]
    /\ temp_files' = temp_files \ {WorkerTemp[w]}
    /\ IF workers[w].updated
       THEN /\ workers' = [workers EXCEPT ![w] = IdleWorker(workers[w].calls + 1)]
            /\ updates' = updates \cup {[file_path |-> workers[w].file_path,
                                        success |-> workers[w].success]}
       ELSE /\ workers' = [workers EXCEPT ![w].pc = "moved", ![w].temp = <<>>]
            /\ UNCHANGED updates
    /\ UNCHANGED <<completed, lastCall, ingestVars, forced, readVars, ragVars, storeVars>>

\* Lines 63-72: no record was updated, so w appends the terminal record.
WorkerAppendTerminal(w) ==
    /\ workers[w].pc = "moved"
    /\ LET terminal == TerminalTrack(workers[w].file_path, workers[w].success,
                                     workers[w].error, workers[w].now)
       IN /\ tracking_file' = Track(tracking_file, terminal, "none").file
          /\ completed' = Append(completed, Identity(terminal))
    /\ workers' = [workers EXCEPT ![w] = IdleWorker(workers[w].calls + 1)]
    /\ updates' = updates \cup {[file_path |-> workers[w].file_path,
                                success |-> workers[w].success]}
    /\ UNCHANGED <<temp_files, lastCall, ingestVars, forced, readVars, ragVars, storeVars>>

ConcInit ==
    /\ TrackerInit
    /\ IngestIdle
    /\ ConcIdle
    /\ Unused
    /\ NoStore
    /\ drive = [f \in FileIds |-> "p1"]

NextConc ==
    \E w \in WorkerIds :
        \/ WorkerTrack(w)
        \/ WorkerRewrite(w)
        \/ WorkerMove(w)
        \/ WorkerAppendTerminal(w)

\* Two workers, each making up to MaxCalls tracker calls, in any interleaving.
SpecConc == ConcInit /\ [][NextConc]_vars


\* ------------------------------------------- a reader beside one update
\* Line 61 when the temporary directory is on another file system than the
\* tracking file: shutil.move cannot rename, it copies the temporary file
\* onto the tracking file and then removes it.  The copy opens the tracking
\* file for writing, which empties it, ...
WorkerCopyOpen(w) ==
    /\ workers[w].pc = "rewritten"
    /\ workers' = [workers EXCEPT ![w].pc = "copying"]
    /\ copying' = [before |-> tracking_file.lines, n |-> 0]
    /\ tracking_file' = [exists |-> TRUE, lines |-> <<>>]
    /\ UNCHANGED <<temp_files, completed, lastCall, ingestVars, updates, forced,
                   reader, ragVars, storeVars>>

\* ... writes the content piece by piece, ...
WorkerCopyLine(w) ==
    /\ workers[w].pc = "copying"
    /\ copying.n < Len(workers[w].temp)
    /\ copying' = [copying EXCEPT !.n = @ + 1]
    /\ tracking_file' = [exists |-> TRUE,
                         lines |-> CopyPrefix(workers[w].temp, copying.n + 1, FALSE)]
    /\ UNCHANGED <<temp_files, completed, lastCall, ingestVars, concVars, forced,
                   reader, ragVars, storeVars>>

\* ... and closes it; the temporary file is removed.  Lines 63, 73-76 follow
\* as after a rename.
WorkerCopyDone(w) ==
    /\ workers[w].pc = "copying"
    /\ copying.n = Len(workers[w].temp)
    /\ copying' = [before |-> <<>>, n |-> 0]
    /\ temp_files' = temp_files \ {WorkerTemp[w]}
    /\ IF workers[w].updated
       THEN /\ workers' = [workers EXCEPT ![w] = IdleWorker(workers[w].calls + 1)]
            /\ updates' = updates \cup {[file_path |-> workers[w].file_path,
                                        success |-> workers[w].success]}
       ELSE /\ workers' = [workers EXCEPT ![w].pc = "moved", ![w].temp = <<>>]
            /\ UNCHANGED updates
    /\ UNCHANGED <<tracking_file, completed, lastCall, ingestVars, forced, reader,
                   ragVars, storeVars>>

\* The complete contents between which the update of w is at this moment:
\* the file before the replacement and the file after it.
UpdateWindow(w) ==
    CASE workers[w].pc = "rewritten" ->
            [before |-> tracking_file.lines, after |-> workers[w].temp]
      [] workers[w].pc = "copying" ->
            [before |-> copying.before, after |-> workers[w].temp]
      [] OTHER ->
            [before |-> tracking_file.lines, after |-> tracking_file.lines]

\* Lines 78-89: another thread or process calls get_history (directly or
\* through is_file_vectorized) and reads the lines the file holds now.
ReaderGetHistory ==
    /\ reader' = [seen |-> tracking_file.lines,
                  before |-> UpdateWindow("w1").before,
                  after |-> UpdateWindow("w1").after]
    /\ reader' # reader
    /\ UNCHANGED <<trackerVars, ingestVars, concVars, forced, copying, ragVars, storeVars>>

NextRead ==
    \/ WorkerTrack("w1")
    \/ WorkerRewrite("w1")
    \/ WorkerMove("w1")
    \/ WorkerCopyOpen("w1")
    \/ WorkerCopyLine("w1")
    \/ WorkerCopyDone("w1")
    \/ WorkerAppendTerminal("w1")
    \/ ReaderGetHistory

\* One worker making up to MaxCalls tracker calls, its replacements done by
\* rename or by copy, and a reader calling get_history at any moment.
SpecRead == ConcInit /\ [][NextRead]_vars


\* ------------------------------------------------------------ rag_pipeline
\* The questions a caller can send: none at all, the empty string, blanks, a
\* question.
Questions == {None, "", " ", "q"}

\* str.strip().
Strip(text) == IF text = " " THEN "" ELSE text

\* Python's `not query` for None or a string.
Falsy(query) == query = None \/ query = ""

\* A langchain Document found by a search.  The retriever hands out the
\* documents without their relevance; whether a Document has an attribute
\* `score` at all depends on the vector store, so both are modelled.
Document(passage, score, scored) ==
    IF scored
    THEN [page_content |-> passage, metadata |-> passage, score |-> score]
    ELSE [page_content |-> passage, metadata |-> passage]

\* getattr(doc, "score", 0)
DocScore(doc) == IF "score" \in DOMAIN doc THEN doc.score ELSE 0

\* What one similarity search of the index can return: at most
\* DEFAULT_RETRIEVER_K distinct passages, each with its relevance, the most
\* relevant first.
SearchResults ==
    {hits \in UNION {[1..n -> Passages \X Scores] : n \in 0..DEFAULT_RETRIEVER_K} :
        /\ \A i, j \in DOMAIN hits : i < j => hits[i][1] # hits[j][1]
        /\ \A i, j \in DOMAIN hits : i < j => hits[i][2] >= hits[j][2]}

\* MultiQueryRetriever.unique_union: the documents found for a phrasing are
\* added to those found before, a document equal to an earlier one is dropped.
RECURSIVE UniqueUnion(_, _)
UniqueUnion(docs, found) ==
    IF found = <<>> THEN docs
    ELSE UniqueUnion(
            IF \E i \in DOMAIN docs : docs[i] = Head(found)
            THEN docs ELSE Append(docs, Head(found)),
            Tail(found))

\* Mutant of InsertByScore: a document goes before those of equal score.
RECURSIVE InsertBeforeTies(_, _)
InsertBeforeTies(sorted, doc) ==
    IF sorted = <<>> THEN <<doc>>
    ELSE IF DocScore(Head(sorted)) > DocScore(doc)
         THEN <<Head(sorted)>> \o InsertBeforeTies(Tail(sorted), doc)
         ELSE <<doc>> \o sorted

\* Line 95: sorted(docs, key=score, reverse=True).  The sort is stable, also
\* with reverse=True: documents of equal score keep their order.
RECURSIVE InsertByScore(_, _)
InsertByScore(sorted, doc) ==
    IF sorted = <<>> THEN <<doc>>
    ELSE IF DocScore(Head(sorted)) >= DocScore(doc)
         THEN <<Head(sorted)>> \o InsertByScore(Tail(sorted), doc)
         ELSE <<doc>> \o sorted

RECURSIVE rerank_documents(_)
rerank_documents(docs) ==
    IF docs = <<>> THEN <<>>
    ELSE InsertByScore(rerank_documents(SubSeq(docs, 1, Len(docs) - 1)),
                       docs[Len(docs)])

\* docs[:n]
Prefix(docs, n) == SubSeq(docs, 1, IF Len(docs) < n THEN Len(docs) ELSE n)

\* Lines 109-112: the fixed answer when nothing was found.
NoDocsContext == <<"No relevant documents were found for your query.">>

\* Mutant of Respond: the documents are not cut to DEFAULT_RETRIEVER_K.
RespondUncut(docs) ==
    LET reranked_docs == rerank_documents(docs)
    IN IF reranked_docs = <<>>
       THEN [context |-> NoDocsContext, sources |-> <<>>]
       ELSE [context |-> [i \in DOMAIN reranked_docs |-> reranked_docs[i].page_content],
             sources |-> [i \in DOMAIN reranked_docs |-> reranked_docs[i].metadata]]

\* Mutant of Respond: an empty result is returned as it is.
RespondNoSentinel(docs) ==
    LET top == Prefix(rerank_documents(docs), DEFAULT_RETRIEVER_K)
    IN [context |-> [i \in DOMAIN top |-> top[i].page_content],
        sources |-> [i \in DOMAIN top |-> top[i].metadata]]

\* Lines 105-117 of process_retrieval: the dictionary returned for the
\* documents the retriever found.  context is the list of the page contents
\* that the code joins with blank lines.
Respond(docs) ==
    LET reranked_docs == rerank_documents(docs)
        top == Prefix(reranked_docs, DEFAULT_RETRIEVER_K)
    IN IF reranked_docs = <<>>
       THEN [context |-> NoDocsContext, sources |-> <<>>]
       ELSE [context |-> [i \in DOMAIN top |-> top[i].page_content],
             sources |-> [i \in DOMAIN top |-> top[i].metadata]]

\* get_vectorstore (lines 41-54) through the lru_cache: the store loaded
\* before, or the index that is on disk now.
LoadedStore ==
    IF cache.store.loaded THEN cache.store
    ELSE [loaded |-> TRUE, docs |-> index.docs]

\* main.py 35-42, 63-84: POST /api/v1/query.  A body without query or with an
\* empty one is refused by the request model (422); a query of blanks raises
\* ValueError, answered with 400.  Then get_rag_pipeline and
\* get_doc_retriever build what the cache does not hold yet: get_env_var
\* raises ValueError when MODEL or VECTORSTORE_PATH is not set, which the
\* handler answers with 400 too; get_vectorstore raises FileNotFoundError
\* when no index is saved, answered with 500.  Else process_retrieval is
\* called.
ProcessQuery ==
    /\ rag.pc = "idle"
    /\ \E query \in Questions, model_set \in BOOLEAN, path_set \in BOOLEAN :
        LET Refused(status, fault) ==
                [NoQuery EXCEPT !.pc = "done", !.via = "query",
                                !.question = query, !.status = status,
                                !.fault = fault]
            r == CASE query = None \/ query = "" ->
                        [rag |-> Refused("422", "none"), cache |-> cache]
                   [] Strip(query) = "" ->
                        [rag |-> Refused("400", "none"), cache |-> cache]
                   [] ~cache.llm /\ ~model_set ->
                        [rag |-> Refused("400", "model_unset"), cache |-> cache]
                   [] ~cache.store.loaded /\ ~path_set ->
                        [rag |-> Refused("400", "path_unset"),
                         cache |-> [cache EXCEPT !.llm = TRUE]]
                   [] ~cache.store.loaded /\ ~index.exists ->
                        [rag |-> Refused("500", "store_missing"),
                         cache |-> [cache EXCEPT !.llm = TRUE]]
                   [] OTHER ->
                        [rag |-> [NoQuery EXCEPT !.pc = "called", !.via = "query",
                                                 !.question = query],
                         cache |-> [llm |-> TRUE, store |-> LoadedStore]]
        IN /\ rag' = r.rag
           /\ cache' = r.cache
    /\ UNCHANGED <<trackerVars, ingestVars, forced, concVars, readVars, index>>

\* Some other caller has process_retrieval from get_doc_retriever() and
\* invokes it itself.
CallProcessRetrieval ==
    /\ rag.pc = "idle"
    /\ cache.store.loaded \/ index.exists
    /\ \E query \in Questions :
        rag' = [NoQuery EXCEPT !.pc = "called", !.via = "direct", !.question = query]
    /\ cache' = [llm |-> TRUE, store |-> LoadedStore]
    /\ UNCHANGED <<trackerVars, ingestVars, forced, concVars, readVars, index>>

\* Lines 99-101: the check of the question.
CheckQuestion ==
    /\ rag.pc = "called"
    /\ rag' = IF Falsy(rag.question)
              THEN [rag EXCEPT !.pc = "done", !.outcome = "ValueError",
                               !.status = IF rag.via = "query" THEN "400" ELSE "none"]
              ELSE [rag EXCEPT !.pc = "expanding"]
    /\ UNCHANGED <<trackerVars, ingestVars, forced, concVars, readVars, storeVars>>

\* Line 103, first part: the MultiQueryRetriever of lines 82-91 asks the
\* language model for phrasings of the question.  The call fails, gives no
\* line at all, or gives some phrasings; the retriever searches for the
\* phrasings only (the original question is not among them).
GenerateQueries ==
    /\ rag.pc = "expanding"
    /\ \E answer \in {"failed", "empty", "lines"}, n \in 1..MaxQueries,
          scored \in BOOLEAN :
        rag' = CASE answer = "failed" ->
                      [rag EXCEPT !.pc = "done", !.calls = @ \cup {"expand"},
                                  !.expanded = "failed", !.outcome = "raised",
                                  !.fault = "expand",
                                  !.status = IF rag.via = "query" THEN "500" ELSE "none"]
                 [] answer = "empty" ->
                      [rag EXCEPT !.pc = "searching", !.calls = @ \cup {"expand"},
                                  !.expanded = "empty", !.queries = 0]
                 [] OTHER ->
                      [rag EXCEPT !.pc = "searching", !.calls = @ \cup {"expand"},
                                  !.expanded = "lines", !.queries = n,
                                  !.scored = scored]
    /\ UNCHANGED <<trackerVars, ingestVars, forced, concVars, readVars, storeVars>>

\* Line 103, second part: the search of the index for one phrasing; what it
\* finds is added to the documents found so far.
Search ==
    /\ rag.pc = "searching"
    /\ rag.queries > 0
    /\ \E hits \in SearchResults :
        LET found == [i \in DOMAIN hits |-> Document(hits[i][1], hits[i][2], rag.scored)]
        IN rag' = [rag EXCEPT
                     !.queries = @ - 1,
                     !.calls = @ \cup {"search"},
                     !.docs = UniqueUnion(@, found),
                     !.best = [p \in Passages |->
                                 IF \E i \in DOMAIN hits :
                                        hits[i][1] = p /\ hits[i][2] > rag.best[p]
                                 THEN (CHOOSE s \in Scores : \E i \in DOMAIN hits :
                                           hits[i] = <<p, s>>)
                                 ELSE rag.best[p]]]
    /\ UNCHANGED <<trackerVars, ingestVars, forced, concVars, readVars, storeVars>>

\* Lines 105-117: process_retrieval returns.
Retrieved ==
    /\ rag.pc = "searching"
    /\ rag.queries = 0
    /\ rag' = [rag EXCEPT !.pc = IF rag.via = "query" THEN "answering" ELSE "done",
                          !.outcome = "returned",
                          !.context = Respond(rag.docs).context,
                          !.sources = Respond(rag.docs).sources]
    /\ UNCHANGED <<trackerVars, ingestVars, forced, concVars, readVars, storeVars>>

\* main.py 86-109: the chain of get_rag_pipeline answers from the context;
\* the request ends with 200, or with 500 when the language model fails.
Answer ==
    /\ rag.pc = "answering"
    /\ \E failed \in BOOLEAN :
        rag' = [rag EXCEPT !.pc = "done", !.calls = @ \cup {"answer"},
                           !.status = IF failed THEN "500" ELSE "200",
                           !.fault = IF failed THEN "answer" ELSE "none"]
    /\ UNCHANGED <<trackerVars, ingestVars, forced, concVars, readVars, storeVars>>

\* The next request.
NextQuery ==
    /\ rag.pc = "done"
    /\ rag' = NoQuery
    /\ UNCHANGED <<trackerVars, ingestVars, forced, concVars, readVars, storeVars>>

\* A new process; a vector store was created before, or none was.
RagInit ==
    /\ TrackerInit
    /\ IngestIdle
    /\ ConcIdle
    /\ Unused
    /\ index \in {NoIndex, [exists |-> TRUE, docs |-> FileIds]}
    /\ cache = NoCache
    /\ drive = [f \in FileIds |-> "p1"]

NextRag ==
    \/ ProcessQuery
    \/ CallProcessRetrieval
    \/ CheckQuestion
    \/ GenerateQueries
    \/ Search
    \/ Retrieved
    \/ Answer
    \/ NextQuery

\* Query requests through the API and direct calls of process_retrieval, one
\* after the other.
SpecRag == RagInit /\ [][NextRag]_vars

\* ------------------------------------------------ queries between ingestions
\* The query route and the ingestion route are served by one process
\* (main.py 33).  Both handlers are coroutines that never await, so a request
\* is handled from its first line to its last before the next one starts.

\* main.py 63-109 in one step, for a request with a question, MODEL and
\* VECTORSTORE_PATH being set: get_rag_pipeline and get_doc_retriever return
\* the cached handles or build them, the store from the index saved at this
\* moment (500 when there is none); the retrieval searches that store and the
\* chain answers (500 when the language model fails).
ServeQuery ==
    /\ ~running
    /\ rag.pc = "idle"
    /\ \E failed \in BOOLEAN :
        IF ~cache.store.loaded /\ ~index.exists
        THEN /\ rag' = [NoQuery EXCEPT !.pc = "done", !.via = "query",
                                       !.question = "q", !.status = "500",
                                       !.fault = "store_missing"]
             /\ cache' = [cache EXCEPT !.llm = TRUE]
        ELSE /\ rag' = [NoQuery EXCEPT !.pc = "done", !.via = "query",
                                       !.question = "q",
                                       !.calls = {"expand", "search", "answer"},
                                       !.outcome = "returned",
                                       !.status = IF failed THEN "500" ELSE "200",
                                       !.fault = IF failed THEN "answer" ELSE "none"]
             /\ cache' = [llm |-> TRUE, store |-> LoadedStore]
    /\ UNCHANGED <<trackerVars, ingestVars, forced, concVars, readVars, index>>

NextFresh ==
    \/ StartRun
    \/ IngestFile
    \/ EndRun
    \/ IngestCleanTemp
    \/ ServeQuery
    \/ NextQuery

\* Ingestion requests and query requests of one process, one after the other.
SpecFresh == IngestInit /\ [][NextFresh]_vars

\* ======================================================= tracker properties
History == GetHistory(tracking_file)

\* The positions of the history whose record carries file_id / file_path.
WithId(tracks, file_id) == {i \in 1..Len(tracks) : tracks[i].file_id = file_id}
WithPath(tracks, file_path) == {i \in 1..Len(tracks) : tracks[i].file_path = file_path}
LastOf(S) == CHOOSE i \in S : \A j \in S : j <= i

\* Two file contents agree when timestamps are compared as set / unset only.
SameTrackState(a, b) ==
    /\ a.file_path = b.file_path /\ a.file_id = b.file_id /\ a.status = b.status
    /\ a.error = b.error /\ a.vectorized = b.vectorized
    /\ (a.vectorized_at = NoTime) = (b.vectorized_at = NoTime)
    /\ (a.timestamp = NoTime) = (b.timestamp = NoTime)
SameState(f, g) ==
    /\ f.exists = g.exists
    /\ Len(f.lines) = Len(g.lines)
    /\ \A i \in 1..Len(f.lines) :
          /\ f.lines[i].complete = g.lines[i].complete
          /\ f.lines[i].nl = g.lines[i].nl
          /\ SameTrackState(f.lines[i].text, g.lines[i].text)

\* C3 as stated: is_file_vectorized(id) is true iff the LAST record whose
\* file_id is id has vectorized = TRUE (false for an id without record).
C3_LastRecordDecides ==
    \A id \in FileIds :
        LET S == WithId(History.tracks, id)
        IN IsFileVectorized(tracking_file, id).value
           <=> (S # {} /\ History.tracks[LastOf(S)].vectorized)

\* C3 amended: is_file_vectorized(id) is true whenever the last record of id
\* is vectorized, true only if some record of id is vectorized, false for an
\* id with no record, and false for an id whose last record is not vectorized
\* provided no earlier record of the id is vectorized either.
C3_SomeRecordDecides ==
    \A id \in FileIds :
        LET S == WithId(History.tracks, id)
            r == IsFileVectorized(tracking_file, id)
        IN /\ r.ok
           /\ (S = {} => ~r.value)
           /\ (S # {} /\ History.tracks[LastOf(S)].vectorized => r.value)
           /\ (r.value => \E i \in S : History.tracks[i].vectorized)
           /\ ((\A i \in S : ~History.tracks[i].vectorized) => ~r.value)

\* The case C3 is wrong about: the last record of f1 is not vectorized, an
\* earlier one (another download path of the same Drive file) is.
C3_Witness ==
    LET S == WithId(History.tracks, "f1")
    IN /\ Cardinality(S) = 2
       /\ ~History.tracks[LastOf(S)].vectorized
       /\ \E i \in S : History.tracks[i].vectorized

\* C4: is_file_vectorized(id) returns true exactly when some record of the
\* history, at any position, has file_id = id and vectorized = TRUE; false
\* otherwise, also for an id no record carries.
C4_AnyPosition ==
    \A id \in FileIds \cup {None} :
        History.ok =>
            IsFileVectorized(tracking_file, id) =
                [ok |-> TRUE,
                 value |-> \E i \in 1..Len(History.tracks) :
                              /\ History.tracks[i].file_id = id
                              /\ History.tracks[i].vectorized]

\* A two-record history whose first record is the vectorized one of f1, its
\* second a record of f2 that is not vectorized; f2 is then reported false.
C4_Witness ==
    /\ Len(History.tracks) = 2
    /\ History.tracks[1].file_id = "f1" /\ History.tracks[1].vectorized
    /\ History.tracks[2].file_id = "f2" /\ ~History.tracks[2].vectorized
    /\ IsFileVectorized(tracking_file, "f1").value
    /\ ~IsFileVectorized(tracking_file, "f2").value

\* C7: in an undisturbed sequential run get_history() holds the record of
\* every completed track call exactly once, in the order of completion, and
\* is empty while the file does not exist.
C7_HistoryIsCompletedTracks ==
    /\ History.ok
    /\ Identities(History.tracks) = completed
    /\ (~tracking_file.exists => History.tracks = <<>>)

\* Two different records were tracked and an update has rewritten the file.
C7_Witness ==
    /\ Len(completed) = 2
    /\ completed[1] # completed[2]
    /\ \E i \in 1..Len(History.tracks) : History.tracks[i].vectorized_at # NoTime

\* C8 as stated: whenever no record of the log has file_path (the log may be
\* empty or not exist), a completed update_vectorization_status(file_path,
\* success, error) appends exactly one terminal record for file_path.
C8_AppendsTerminal ==
    \A p \in Paths, success \in BOOLEAN, error \in Errors \cup {None}, now \in Times :
        (History.ok /\ WithPath(History.tracks, p) = {}) =>
            LET r == UpdateVectorizationStatus(tracking_file, temp_files, "tmp1",
                                               p, success, error, now, NoFault)
                h == GetHistory(r.file)
            IN /\ r.outcome = "returned"
               /\ h.ok
               /\ Len(h.tracks) = Len(History.tracks) + 1
               /\ SubSeq(h.tracks, 1, Len(History.tracks)) = History.tracks
               /\ h.tracks[Len(h.tracks)].file_path = p
               /\ h.tracks[Len(h.tracks)].vectorized = success
               /\ h.tracks[Len(h.tracks)].status =
                      (IF success THEN "vectorized" ELSE "failed")

\* C9: update_vectorization_status(path, success=True) called twice in a row
\* leaves the same file as called once (same number of records, same state
\* of every record, timestamps compared as set / unset).
C9_Idempotent ==
    \A p \in Paths, now1 \in Times, now2 \in Times :
        LET once == UpdateVectorizationStatus(tracking_file, temp_files, "tmp1",
                                              p, TRUE, None, now1, NoFault)
            twice == UpdateVectorizationStatus(once.file, once.tmp, "tmp1",
                                               p, TRUE, None, now2, NoFault)
        IN /\ once.outcome = "returned"
           /\ twice.outcome = "returned"
           /\ SameState(once.file, twice.file)

\* The log after a first update_vectorization_status("p2", True) found no
\* record of p2 and appended its terminal record behind the record of p1: a
\* second call must find that record and append nothing.
C9_Witness ==
    /\ Len(History.tracks) = 2
    /\ History.tracks[1].file_path = "p1"
    /\ History.tracks[1].status = "downloaded"
    /\ History.tracks[2].file_path = "p2"
    /\ History.tracks[2].status = "vectorized"
    /\ History.tracks[2].vectorized

\* The records of the lines before the last one, when they all parse.
Preceding == ParseLines(SubSeq(tracking_file.lines, 1, Len(tracking_file.lines) - 1))

\* C5 as stated: when the file ends with a line that does not parse (left by
\* an interrupted append) and every line before it parses, get_history() does
\* not raise and returns the records of the lines before it, in file order.
C5_SkipsUnparsableTail ==
    (/\ tracking_file.exists
     /\ tracking_file.lines # <<>>
     /\ ~ParseRaw(tracking_file.lines[Len(tracking_file.lines)]).ok
     /\ Preceding.ok)
    => (History.ok /\ History.tracks = Preceding.tracks)

\* The last step was an update call in which a step of the rewrite failed:
\* parse_raw raised while the records were copied, the write to the temporary
\* file failed, or the replace step failed or was cut by a crash.
RewriteFailed(call) ==
    /\ call.op = "update"
    /\ \/ call.at \in {"write", "move", "copy", "crash_copy"}
       \/ call.at = "none" /\ call.outcome = "raised"

\* C6 as stated: update_vectorization_status is all-or-nothing.  A call in
\* which a step of the rewrite fails leaves the tracking file as it was and
\* no temporary file of its own; a call in which none fails leaves the fully
\* updated content in the tracking file.
C6_AllOrNothing ==
    [][/\ RewriteFailed(lastCall') =>
            /\ tracking_file' = tracking_file
            /\ temp_files' = temp_files
       /\ (lastCall'.op = "update" /\ lastCall'.outcome = "returned") =>
            \E p \in Paths, success \in BOOLEAN, error \in Errors \cup {None},
               now \in Times :
                tracking_file' =
                    UpdateVectorizationStatus(tracking_file, temp_files, "tmp1",
                        p, success, error, now, NoFault).file]_vars


\* The elements of a sequence.
Range(s) == {s[i] : i \in DOMAIN s}

\* The paths whose last record in file order is vectorized.
CurrentlyVectorized ==
    {p \in Paths : /\ WithPath(History.tracks, p) # {}
                   /\ History.tracks[LastOf(WithPath(History.tracks, p))].vectorized}

\* C19 as stated: get_vectorized_files() lists a path if and only if the
\* last record of the path is vectorized, and lists it once, so that
\* vectorized_files of the tracking status is the number of distinct
\* currently vectorized paths.
C19_ListsCurrentStateOnce ==
    LET listed == GetVectorizedFiles(tracking_file).paths
    IN /\ Range(listed) = CurrentlyVectorized
       /\ \A i, j \in DOMAIN listed : i < j => listed[i] # listed[j]
       /\ GetTrackingStatus(tracking_file).vectorized_files
              = Cardinality(CurrentlyVectorized)


\* C22 as stated: update_vectorization_status(path, success=False, ...)
\* leaves the vectorized_at of every record of path as it was.
C22_StampOnlyOnSuccess ==
    \A p \in Paths, error \in Errors \cup {None}, now \in Times :
        LET r == UpdateVectorizationStatus(tracking_file, temp_files, "tmp1",
                                           p, FALSE, error, now, NoFault)
            h == GetHistory(r.file)
        IN \A i \in WithPath(History.tracks, p) :
               h.tracks[i].vectorized_at = History.tracks[i].vectorized_at

\* C23 as stated: after update_vectorization_status(path, success=True) the
\* latest record of path has no error, also when an earlier failed attempt
\* attached one.
C23_SuccessClearsError ==
    \A p \in Paths, now \in Times :
        LET r == UpdateVectorizationStatus(tracking_file, temp_files, "tmp1",
                                           p, TRUE, None, now, NoFault)
            h == GetHistory(r.file)
        IN WithPath(h.tracks, p) # {} =>
               h.tracks[LastOf(WithPath(h.tracks, p))].error = None

\* C24: update_vectorization_status(path, ...) keeps the number and order of
\* the records that were there (it appends one at most), carries every
\* record of another path forward unchanged in all fields, and leaves
\* file_path, file_id, status and timestamp of the records of path alone.
C24_Frame ==
    \A p \in Paths, success \in BOOLEAN, error \in Errors \cup {None},
       now \in Times :
        LET r == UpdateVectorizationStatus(tracking_file, temp_files, "tmp1",
                                           p, success, error, now, NoFault)
            old == History.tracks
            new == GetHistory(r.file).tracks
        IN /\ GetHistory(r.file).ok
           /\ Len(new) \in {Len(old), Len(old) + 1}
           /\ \A i \in 1..Len(old) :
                 /\ Identity(new[i]) = Identity(old[i])
                 /\ old[i].file_path # p => new[i] = old[i]

\* An update of p1 has rewritten a log that holds a record of p1 and, after
\* it, a record of p2: the first is vectorized, the second untouched.
C24_Witness ==
    /\ lastCall.op = "update"
    /\ Len(History.tracks) = 2
    /\ History.tracks[1].file_path = "p1"
    /\ History.tracks[1].status = "downloaded"
    /\ History.tracks[1].vectorized
    /\ History.tracks[2].file_path = "p2"
    /\ History.tracks[2].status = "downloaded"
    /\ ~History.tracks[2].vectorized
    /\ History.tracks[2].vectorized_at = NoTime

\* ===================================================== ingestion properties
\* The step is one iteration of the loop of ingest_drive_files.
IsIngestStep == pending # <<>> /\ pending' # pending

\* C1 as stated: once is_file_vectorized(id) has been true, no later
\* non-forced run downloads (and so parses or tracks) that file again,
\* whatever happens to the other files and also when a run crashes part-way.
C1_NeverReprocessed ==
    [][(IsIngestStep /\ lastEvent'.kind \in {"downloaded", "download_failed"})
         => lastEvent'.file_id \notin everVectorized]_vars

\* C2: on the empty log is_file_vectorized is false; an iteration that ends
\* well (download, 'downloaded' record appended, document loaded,
\* update_vectorization_status(path, success=True) returned) starts with
\* is_file_vectorized(id) false and ends with it true; and an iteration that
\* visits a file of which is_file_vectorized is true skips it: nothing is
\* downloaded, the log, processed_files and documents stay as they are.
C2_EndToEnd ==
    /\ \A id \in FileIds : ~IsFileVectorized(tracking_file, id).value
    /\ [][IsIngestStep =>
            LET id == lastEvent'.file_id
            IN /\ lastEvent'.result = "ok" =>
                    /\ ~IsFileVectorized(tracking_file, id).value
                    /\ IsFileVectorized(tracking_file', id).value
               /\ IsFileVectorized(tracking_file, id).value =>
                    /\ lastEvent'.kind = "skipped"
                    /\ tracking_file' = tracking_file
                    /\ temp_files' = temp_files
                    /\ processed_files' = processed_files
                    /\ documents' = documents]_vars

\* Document f1 was ingested by the first run on the empty log (its one record
\* is vectorized) and the second run has just skipped it.
C2_Witness ==
    /\ runs = 2
    /\ lastEvent = [file_id |-> "f1", kind |-> "skipped", result |-> "skipped"]
    /\ Len(tracking_file.lines) = 1
    /\ History.ok
    /\ History.tracks[1].file_id = "f1"
    /\ History.tracks[1].status = "downloaded"
    /\ History.tracks[1].vectorized


\* C12 as stated: an iteration in which checking, downloading, tracking,
\* parsing or status-updating the document fails (the process stays alive)
\* does not abort the batch, the loop goes on with the documents still to
\* visit; and when the document was downloaded, the log then holds records of
\* its path and they all have vectorized == false.
C12_FailureIsolated ==
    [][(IsIngestStep /\ lastEvent'.result \in {"failed", "aborted"}) =>
          /\ running'
          /\ pending' = Tail(pending)
          /\ lastEvent'.kind = "downloaded" =>
                LET h == GetHistory(tracking_file')
                    own == WithPath(h.tracks, drive[Head(pending)])
                IN /\ h.ok
                   /\ own # {}
                   /\ \A i \in own : ~h.tracks[i].vectorized]_vars


\* C13 as stated: a forced run ignores the previous vectorization status;
\* every file it enumerates is downloaded again, none is skipped, also when
\* is_file_vectorized was true of it before the call.
C13_ForcedRunSkipsNothing ==
    [][(IsIngestStep /\ forced) => lastEvent'.kind # "skipped"]_vars


\* C20 as stated: when a downloaded document fails to be processed (its
\* 'downloaded' record is in the log and the except branch applied
\* update_vectorization_status(path, success=False, error)), get_failed_files()
\* contains its path and failed_files of the tracking status counts it.
C20_FailedFileReported ==
    [][(/\ IsIngestStep
        /\ lastEvent'.kind = "downloaded"
        /\ lastEvent'.result = "failed"
        /\ GetHistory(tracking_file').ok
        /\ \E i \in WithPath(GetHistory(tracking_file').tracks, drive[Head(pending)]) :
               /\ GetHistory(tracking_file').tracks[i].status = "downloaded"
               /\ GetHistory(tracking_file').tracks[i].file_id = Head(pending))
       => /\ drive[Head(pending)] \in Range(GetFailedFiles(tracking_file').paths)
          /\ GetTrackingStatus(tracking_file').failed_files >= 1]_vars


\* C26 as stated, for the states between two runs: a file that
\* is_file_vectorized reports as vectorized has its chunks in the saved
\* vector index, also after a run in which the update of the vector store
\* failed or that crashed.
C26_VectorizedIsIndexed ==
    ~running =>
        \A id \in FileIds :
            IsFileVectorized(tracking_file, id).value => id \in index.docs

\* C27 as stated: no step removes from the saved index the chunks of a file
\* that the log reports as vectorized after the step.
C27_IndexKeepsVectorized ==
    [][\A id \in index.docs :
           IsFileVectorized(tracking_file', id).value => id \in index'.docs]_vars

\* =================================================== concurrency properties
\* No worker is inside a tracker call.
Quiescent == \A w \in WorkerIds : workers[w].pc = "idle"

\* How often x occurs in the sequence s.
Occurrences(s, x) == Cardinality({i \in 1..Len(s) : s[i] = x})

\* C10 as stated: under any interleaving of two workers sharing the log no
\* update is lost; whenever both have finished their calls, the log holds
\* every record appended by a completed track call, and for every completed
\* update_vectorization_status(path, success) call some record of path
\* carries its stamp (and its flag, when no completed call on that path
\* asked for the other flag).
C10_NoLostUpdate ==
    Quiescent =>
        /\ History.ok
        /\ \A i \in 1..Len(completed) :
               Occurrences(completed, completed[i])
                   <= Occurrences(Identities(History.tracks), completed[i])
        /\ \A u \in updates :
               \E i \in WithPath(History.tracks, u.file_path) :
                   /\ History.tracks[i].vectorized_at # NoTime \/ ~u.success
                   /\ [file_path |-> u.file_path, success |-> ~u.success] \notin updates
                          => History.tracks[i].vectorized = u.success


\* C11 as stated: a get_history call running beside an update sees the
\* complete log as it was before the replacement or the complete log after
\* it, never a truncated or partially copied file.
C11_ReaderSeesWholeLog ==
    reader.seen = reader.before \/ reader.seen = reader.after


\* ===================================================== retrieval properties
\* C14: whatever the question and however many documents the retriever
\* found, process_retrieval returns at most DEFAULT_RETRIEVER_K passages in
\* context and at most DEFAULT_RETRIEVER_K entries in sources.
C14_AtMostK ==
    rag.outcome = "returned" =>
        /\ Len(rag.context) <= DEFAULT_RETRIEVER_K
        /\ Len(rag.sources) <= DEFAULT_RETRIEVER_K

\* The retriever found more than DEFAULT_RETRIEVER_K documents and the call
\* returned DEFAULT_RETRIEVER_K of them.
C14_Witness ==
    /\ rag.outcome = "returned"
    /\ Len(rag.docs) > DEFAULT_RETRIEVER_K
    /\ Len(rag.sources) = DEFAULT_RETRIEVER_K
    /\ Len(rag.context) = DEFAULT_RETRIEVER_K

\* C15 as stated: a passage found more than once (by two phrasings, with
\* different scores) is in the result of the retrieval exactly once, and
\* the result is sorted descending by the higher score of each passage.
C15_FusedByBestScore ==
    (rag.outcome = "returned" /\ rag.docs # <<>>) =>
        /\ \A i, j \in DOMAIN rag.context : i < j => rag.context[i] # rag.context[j]
        /\ \A i, j \in DOMAIN rag.context :
               i < j => rag.best[rag.context[i]] >= rag.best[rag.context[j]]

\* C16: when the retrieval for a valid question has found no passage,
\* process_retrieval returns (it raises nothing) the fixed context text and
\* an empty list of sources, and the request goes on to the answer without
\* an error status.
C16_EmptyResultIsSuccess ==
    [][(rag.pc = "searching" /\ rag.queries = 0 /\ rag.docs = <<>>) =>
          /\ rag'.outcome = "returned"
          /\ rag'.context = NoDocsContext
          /\ rag'.sources = <<>>
          /\ rag'.status = "none"
          /\ rag'.pc = IF rag.via = "query" THEN "answering" ELSE "done"]_vars

\* A request through the API whose searches found nothing was answered with
\* status 200 from the fixed context.
C16_Witness ==
    /\ rag.pc = "done"
    /\ rag.via = "query"
    /\ rag.question = "q"
    /\ "search" \in rag.calls
    /\ rag.docs = <<>>
    /\ rag.outcome = "returned"
    /\ rag.context = NoDocsContext
    /\ rag.sources = <<>>
    /\ rag.status = "200"

\* C17 as stated: a call whose question is missing or empty after trimming
\* is rejected with a validation error and no external call (language model,
\* index) is made for it.
C17_RejectedBeforeCalls ==
    (rag.pc # "idle" /\ (rag.question = None \/ Strip(rag.question) = "")) =>
        /\ rag.calls = {}
        /\ rag.pc = "done" =>
               rag.outcome = "ValueError" \/ rag.status \in {"400", "422"}

\* C18 as stated: when the language model fails or returns nothing while
\* producing the phrasings, the retrieval does not fail: the index is
\* searched with the original question and the call returns.
C18_ExpansionNotRequired ==
    (rag.expanded \in {"failed", "empty"} /\ rag.pc \in {"answering", "done"}) =>
        /\ rag.outcome = "returned"
        /\ "search" \in rag.calls


\* C21 as stated: a query request is answered with a validation error (400,
\* or 422 from the request model) if and only if its question is missing or
\* empty after trimming; a failure of the language model, of the vector store
\* or of their configuration is answered with 500.
C21_ErrorsClassified ==
    (rag.pc = "done" /\ rag.via = "query") =>
        /\ rag.status \in {"400", "422"}
               <=> (rag.question = None \/ Strip(rag.question) = "")
        /\ rag.fault # "none" => rag.status = "500"


\* The documents of a list that have the given score, in the order of the list.
WithScore(docs, s) == SelectSeq(docs, LAMBDA d : DocScore(d) = s)

\* C25: rerank_documents returns a permutation of the documents it is given,
\* in non-increasing order of score (0 for a document without a score), the
\* documents of equal score in the order they were retrieved in; what
\* process_retrieval returns for a non-empty retrieval is the first
\* DEFAULT_RETRIEVER_K documents of that list.
C25_RerankStable ==
    LET reranked_docs == rerank_documents(rag.docs)
        top == Prefix(reranked_docs, DEFAULT_RETRIEVER_K)
    IN /\ Len(reranked_docs) = Len(rag.docs)
       /\ \A d \in Range(rag.docs) \cup Range(reranked_docs) :
              Cardinality({i \in DOMAIN reranked_docs : reranked_docs[i] = d})
                  = Cardinality({i \in DOMAIN rag.docs : rag.docs[i] = d})
       /\ \A i, j \in DOMAIN reranked_docs :
              i < j => DocScore(reranked_docs[i]) >= DocScore(reranked_docs[j])
       /\ \A s \in Scores \cup {0} :
              WithScore(reranked_docs, s) = WithScore(rag.docs, s)
       /\ (rag.outcome = "returned" /\ rag.docs # <<>>) =>
              /\ rag.context = [i \in DOMAIN top |-> top[i].page_content]
              /\ rag.sources = [i \in DOMAIN top |-> top[i].metadata]

\* A retrieval has returned for more than DEFAULT_RETRIEVER_K scored
\* documents that were not found in order of score and of which two have
\* the same score.
C25_Witness ==
    /\ rag.outcome = "returned"
    /\ rag.scored
    /\ Len(rag.docs) > DEFAULT_RETRIEVER_K
    /\ rerank_documents(rag.docs) # rag.docs
    /\ \E i, j \in DOMAIN rag.docs :
           /\ i < j
           /\ DocScore(rag.docs[i]) = DocScore(rag.docs[j])
           /\ DocScore(rag.docs[i]) = 9
    /\ Len(rag.context) = DEFAULT_RETRIEVER_K


\* C28 as stated: a query answered while an index is saved (an ingestion run
\* has completed and saved it) has searched the documents of that index,
\* whatever queries the process answered before.
C28_QueryIsFresh ==
    [][(rag.pc = "idle" /\ rag'.pc = "done" /\ rag'.outcome = "returned"
           /\ ~running /\ index.exists)
          => cache'.store.docs = index.docs]_vars

====
